---- MODULE Spec2Model ----
(***************************************************************************)
(* Model of src/src/dijkstra/index.ts: class Graph, whose constructor      *)
(* validates its input, builds the adjacency / distance maps and runs      *)
(* Dijkstra's algorithm with a priority queue, and whose two query methods *)
(* (shortestPathTo, printPathTo) read the maps afterwards.                 *)
(***************************************************************************)
EXTENDS Integers, Sequences, FiniteSets, Bags

VARIABLES
  startV,         \* the constructor's startV (line 31)
  edges,          \* the constructor's edges (line 31)
  pc,             \* where the constructor is: "new", "error" (it threw),
                  \* "while" (line 108), "for" (line 115), "done" (returned)
  error,          \* the message of the Error validateInput threw
  bestDistances,  \* Graph.bestDistances (line 16)
  prevVertex,     \* Graph.prevVertex (line 20)
  neighbours,     \* Graph.neighbours (line 24)
  q,              \* the priority queue q (line 102)
  visited,        \* the set visited (line 104)
  vertexToCheck,  \* the vertex of the dequeued entry (line 109)
  bestDistSoFar,  \* the distance of the dequeued entry (line 109)
  idx,            \* the position of the for-of loop of line 115
  result          \* the last query and what it returned

vars == <<startV, edges, pc, error, bestDistances, prevVertex, neighbours,
          q, visited, vertexToCheck, bestDistSoFar, idx, result>>

(***************************************************************************)
(* Bounds of the inputs that are enumerated.                               *)
(***************************************************************************)
MaxEdges == 3
MaxWeight == 2
MaxNegWeight == 1
MaxFairEdges == 2

\* Vertex names; the enumerated edge lists are over GenNames, and by the
\* symmetry of the names their source is always the first one.
AllNames == {"A", "B", "C", "D", "E"}
GenNames == {"A", "B", "C"}
GenStart == "A"
Weights == (0 - MaxNegWeight)..MaxWeight

Vertex(name) == [name |-> name]
Edge(from, to, distance) == [from |-> from, to |-> to, distance |-> distance]

\* The sample topology of the module's demo.
RefEdges ==
  << Edge(Vertex("A"), Vertex("B"), 1),
     Edge(Vertex("A"), Vertex("C"), 3),
     Edge(Vertex("A"), Vertex("E"), 10),
     Edge(Vertex("B"), Vertex("C"), 1),
     Edge(Vertex("C"), Vertex("D"), 5),
     Edge(Vertex("D"), Vertex("E"), 4) >>
RefStartV == Vertex("A")

GenEdges ==
  {Edge(Vertex(f), Vertex(t), d) : f \in GenNames, t \in GenNames, d \in Weights}
EdgeLists(maxLen) == UNION {[1..n -> GenEdges] : n \in 0..maxLen}

(***************************************************************************)
(* JavaScript values: numbers are integers or Infinity, a Map lookup of a  *)
(* missing key is undefined.                                               *)
(***************************************************************************)
Num(n) == [kind |-> "number", n |-> n]
Infinity == [kind |-> "Infinity"]
Undefined == [kind |-> "undefined"]
NoVertex == [kind |-> "none"]

\* a < b and a <= b for JavaScript numbers, a being finite.
LessThan(a, b) == IF b.kind = "Infinity" THEN TRUE ELSE a < b.n
LessOrEqual(a, b) == IF b.kind = "Infinity" THEN TRUE ELSE a <= b.n

\* Map.has / Map.get / Map.set on maps modelled as functions over their keys.
EmptyMap == <<>>
MapHas(m, k) == k \in DOMAIN m
MapGet(m, k) == IF k \in DOMAIN m THEN m[k] ELSE Undefined
MapSet(m, k, v) == [x \in (DOMAIN m) \cup {k} |-> IF x = k THEN v ELSE m[x]]

(***************************************************************************)
(* Graph.validateInput: the message of the Error thrown, or NoError.       *)
(***************************************************************************)
NoError == "none"
Includes(names, name) == \E k \in 1..Len(names) : names[k] = name

\* validateInput without its isEmpty test.
validateInputNoEmptyTest(sV, es) ==
  LET fromVNames == [k \in 1..Len(es) |-> es[k].from.name]
      toVNames == [k \in 1..Len(es) |-> es[k].to.name]
  IN  IF ~Includes(fromVNames, sV.name) /\ ~Includes(toVNames, sV.name)
      THEN "Edges should include given start Vertex"
      ELSE NoError

validateInput(sV, es) ==
  IF Len(es) = 0
  THEN "Edges should not be empty"
  ELSE LET fromVNames == [k \in 1..Len(es) |-> es[k].from.name]
           toVNames == [k \in 1..Len(es) |-> es[k].to.name]
       IN  IF ~Includes(fromVNames, sV.name) /\ ~Includes(toVNames, sV.name)
           THEN "Edges should include given start Vertex"
           ELSE NoError

(***************************************************************************)
(* The constructor's loops over the edges and over allVertices.            *)
(***************************************************************************)
\* The adjacency of an undirected reading: every edge is filed under both of
\* its endpoints.
RECURSIVE BuildNeighboursBothWays(_, _)
BuildNeighboursBothWays(es, k) ==
  IF k = 0
  THEN EmptyMap
  ELSE LET m == BuildNeighboursBothWays(es, k - 1)
           e == es[k]
           back == [from |-> e.to, to |-> e.from, distance |-> e.distance]
           m1 == IF MapHas(m, e.from.name)
                 THEN MapSet(m, e.from.name, Append(m[e.from.name], e))
                 ELSE MapSet(m, e.from.name, <<e>>)
       IN  IF MapHas(m1, e.to.name)
           THEN MapSet(m1, e.to.name, Append(m1[e.to.name], back))
           ELSE MapSet(m1, e.to.name, <<back>>)

RECURSIVE BuildNeighbours(_, _)
BuildNeighbours(es, k) ==
  IF k = 0
  THEN EmptyMap
  ELSE LET m == BuildNeighbours(es, k - 1)
           e == es[k]
           from == e.from.name
       IN  IF MapHas(m, from)
           THEN MapSet(m, from, Append(m[from], e))
           ELSE MapSet(m, from, <<e>>)

AllVertices(es) ==
  {es[k].from.name : k \in 1..Len(es)} \cup {es[k].to.name : k \in 1..Len(es)}

InitialDistances(sV, es) ==
  MapSet([vName \in AllVertices(es) |-> Infinity], sV.name, Num(0))

(***************************************************************************)
(* The priority queue: a bag of [v, d] entries; deq yields an entry the    *)
(* comparator bestDist2 - bestDist1 ranks first, i.e. one of least d.      *)
(***************************************************************************)
Entry(v, d) == [v |-> v, d |-> d]
Enq(queue, e) == queue (+) SetToBag({e})
\* A deq that leaves the entry in the queue.
RemoveNothing(queue, e) == queue
Remove(queue, e) == queue (-) SetToBag({e})
IsEmptyQ(queue) == BagToSet(queue) = {}

\* The comparator reversed: an entry of greatest d.
DeqCandidatesMax(queue) ==
  {e \in BagToSet(queue) : \A o \in BagToSet(queue) : e.d >= o.d}
\* No priority at all: any entry.
DeqCandidatesAny(queue) == BagToSet(queue)
DeqCandidates(queue) ==
  {e \in BagToSet(queue) : \A o \in BagToSet(queue) : e.d <= o.d}

(***************************************************************************)
(* Queries.                                                                *)
(***************************************************************************)
shortestPathTo(v) == MapGet(bestDistances, v.name)

\* The while loop of printPathTo: the vertices prepended to the path, or
\* <<NoVertex>> when the walk has taken more steps than there are
\* predecessor entries, which is when the loop never ends.
\* An if in place of the while: one predecessor only.
WalkBackOnce(prev, path, fuel) == <<prev.name>> \o path

RECURSIVE WalkBack(_, _, _)
WalkBack(prev, path, fuel) ==
  IF prev = Undefined
  THEN path
  ELSE IF fuel = 0
       THEN <<NoVertex>>
       ELSE WalkBack(MapGet(prevVertex, prev.name), <<prev.name>> \o path, fuel - 1)

printPathTo(v) ==
  IF v.name = startV.name
  THEN [kind |-> "source", path |-> <<v.name>>]
  ELSE LET prev == MapGet(prevVertex, v.name)
       IN  IF prev = Undefined
           THEN Undefined
           ELSE LET path == WalkBack(prev, <<v.name>>, Cardinality(DOMAIN prevVertex) + 1)
                IN  IF path = <<NoVertex>>
                    THEN [kind |-> "diverges"]
                    ELSE [kind |-> "path", path |-> path,
                          total |-> MapGet(bestDistances, v.name)]

(***************************************************************************)
(* State machine.                                                          *)
(***************************************************************************)
Inputs(maxLen) ==
  {[startV |-> Vertex(GenStart), edges |-> es] : es \in EdgeLists(maxLen)}
    \cup {[startV |-> RefStartV, edges |-> RefEdges]}

InitFrom(inputs) ==
  /\ \E in \in inputs : startV = in.startV /\ edges = in.edges
  /\ pc = "new"
  /\ error = NoError
  /\ bestDistances = EmptyMap
  /\ prevVertex = EmptyMap
  /\ neighbours = EmptyMap
  /\ q = EmptyBag
  /\ visited = {}
  /\ vertexToCheck = NoVertex
  /\ bestDistSoFar = 0
  /\ idx = 0
  /\ result = [op |-> "none", v |-> "", value |-> Undefined]

\* constructor, line 32: validateInput throws.
ValidateThrows ==
  /\ pc = "new"
  /\ validateInput(startV, edges) # NoError
  /\ error' = validateInput(startV, edges)
  /\ pc' = "error"
  /\ UNCHANGED <<startV, edges, bestDistances, prevVertex, neighbours, q,
                 visited, vertexToCheck, bestDistSoFar, idx, result>>

\* constructor, lines 32-54 and 99-106: the maps are built and the source
\* is enqueued.
Build ==
  /\ pc = "new"
  /\ validateInput(startV, edges) = NoError
  /\ neighbours' = BuildNeighbours(edges, Len(edges))
  /\ bestDistances' = InitialDistances(startV, edges)
  /\ q' = Enq(EmptyBag, Entry(startV, 0))
  /\ visited' = {}
  /\ pc' = "while"
  /\ UNCHANGED <<startV, edges, error, prevVertex, vertexToCheck,
                 bestDistSoFar, idx, result>>

\* lines 108-113: one entry is dequeued; a vertex without outgoing edges is
\* skipped.
Deq ==
  /\ pc = "while"
  /\ ~IsEmptyQ(q)
  /\ \E e \in DeqCandidates(q) :
       /\ q' = Remove(q, e)
       /\ vertexToCheck' = e.v
       /\ bestDistSoFar' = e.d
       /\ IF MapHas(neighbours, e.v.name)
          THEN pc' = "for" /\ idx' = 1
          ELSE pc' = "while" /\ idx' = 0
  /\ UNCHANGED <<startV, edges, error, bestDistances, prevVertex, neighbours,
                 visited, result>>

\* line 122, and the same without the distance of the dequeued entry.
AltDistEdgeOnly(distSoFar, distance) == distance
AltDist(distSoFar, distance) == distSoFar + distance

\* line 123, and the same with <= for <.
ImprovesOrEqual(altDist, best) == LessOrEqual(altDist, best)
Improves(altDist, best) == LessThan(altDist, best)

\* lines 115-128: one iteration of the loop over the outgoing edges.
Relax ==
  /\ pc = "for"
  /\ idx <= Len(neighbours[vertexToCheck.name])
  /\ LET neighbour == neighbours[vertexToCheck.name][idx]
         distVertex == neighbour.to
         altDist == AltDist(bestDistSoFar, neighbour.distance)
     IN  IF distVertex.name \in visited
         THEN UNCHANGED <<bestDistances, prevVertex, q>>
         ELSE IF Improves(altDist, MapGet(bestDistances, distVertex.name))
              THEN /\ bestDistances' = MapSet(bestDistances, distVertex.name, Num(altDist))
                   /\ prevVertex' = MapSet(prevVertex, distVertex.name, vertexToCheck)
                   /\ q' = Enq(q, Entry(distVertex, altDist))
              ELSE UNCHANGED <<bestDistances, prevVertex, q>>
  /\ idx' = idx + 1
  /\ UNCHANGED <<startV, edges, pc, error, neighbours, visited, vertexToCheck,
                 bestDistSoFar, result>>

\* line 130: the dequeued vertex is marked visited.
MarkVisited ==
  /\ pc = "for"
  /\ idx > Len(neighbours[vertexToCheck.name])
  /\ visited' = visited \cup {vertexToCheck.name}
  /\ pc' = "while"
  /\ UNCHANGED <<startV, edges, error, bestDistances, prevVertex, neighbours,
                 q, vertexToCheck, bestDistSoFar, idx, result>>

\* line 108 with an empty queue: the algorithm and the constructor return.
Return ==
  /\ pc = "while"
  /\ IsEmptyQ(q)
  /\ pc' = "done"
  /\ UNCHANGED <<startV, edges, error, bestDistances, prevVertex, neighbours,
                 q, visited, vertexToCheck, bestDistSoFar, idx, result>>

\* A call of shortestPathTo on the constructed graph.
QueryDistance ==
  /\ pc = "done"
  /\ \E v \in AllNames :
       result' = [op |-> "shortestPathTo", v |-> v,
                  value |-> shortestPathTo(Vertex(v))]
  /\ UNCHANGED <<startV, edges, pc, error, bestDistances, prevVertex,
                 neighbours, q, visited, vertexToCheck, bestDistSoFar, idx>>

\* A call of printPathTo on the constructed graph; a walk that never ends
\* returns nothing.
QueryPath ==
  /\ pc = "done"
  /\ \E v \in AllNames :
       /\ printPathTo(Vertex(v)).kind # "diverges"
       /\ result' = [op |-> "printPathTo", v |-> v,
                     value |-> printPathTo(Vertex(v))]
  /\ UNCHANGED <<startV, edges, pc, error, bestDistances, prevVertex,
                 neighbours, q, visited, vertexToCheck, bestDistSoFar, idx>>

Next ==
  \/ ValidateThrows
  \/ Build
  \/ Deq
  \/ Relax
  \/ MarkVisited
  \/ Return
  \/ QueryDistance
  \/ QueryPath

Init == InitFrom(Inputs(MaxEdges))
Spec == Init /\ [][Next]_vars

\* The constructor runs to completion synchronously: its steps are taken
\* as long as one is possible.
Construct == ValidateThrows \/ Build \/ Deq \/ Relax \/ MarkVisited \/ Return
FairInit == InitFrom(Inputs(MaxFairEdges))
FairSpec == FairInit /\ [][Next]_vars /\ WF_vars(Construct)

(***************************************************************************)
(* Reference notions the properties are stated against, computed from the  *)
(* input edge list alone: the walks source -> v by enumeration.            *)
(***************************************************************************)
NonNegative == \A k \in 1..Len(edges) : edges[k].distance >= 0
HasNegative == \E k \in 1..Len(edges) : edges[k].distance < 0

\* The walks of exactly n >= 1 edges that leave the source, as sequences of
\* indices into edges.
RECURSIVE WalksOfLen(_)
WalksOfLen(n) ==
  IF n = 1
  THEN {<<k>> : k \in {j \in 1..Len(edges) : edges[j].from.name = startV.name}}
  ELSE {Append(w, k) :
          <<w, k>> \in {p \in WalksOfLen(n - 1) \X (1..Len(edges)) :
                          edges[p[2]].from.name = edges[p[1][n - 1]].to.name}}

\* Every walk of at most as many edges as there are vertices: all the simple
\* paths and some walks with a cycle.
Walks == UNION {WalksOfLen(n) : n \in 1..Cardinality(AllVertices(edges))}

RECURSIVE WalkWeight(_)
WalkWeight(w) ==
  IF Len(w) = 0 THEN 0 ELSE edges[Head(w)].distance + WalkWeight(Tail(w))

WalkEnd(w) == edges[w[Len(w)]].to.name

WeightsTo(walks, v) ==
  {WalkWeight(w) : w \in {x \in walks : WalkEnd(x) = v}}
    \cup (IF v = startV.name THEN {0} ELSE {})

Reachable(walks, v) == WeightsTo(walks, v) # {}
TrueDistance(walks, v) ==
  CHOOSE d \in WeightsTo(walks, v) : \A o \in WeightsTo(walks, v) : d <= o

IsRef == startV = RefStartV /\ edges = RefEdges
Built == pc \in {"while", "for", "done"}

\* The sums of weights over the choices of one input edge x -> y for each
\* consecutive pair (x, y) of path; empty when some pair has no edge.
RECURSIVE PathSums(_)
PathSums(path) ==
  IF Len(path) <= 1
  THEN {0}
  ELSE {edges[k].distance + r :
          <<k, r>> \in {k \in 1..Len(edges) :
                          /\ edges[k].from.name = path[1]
                          /\ edges[k].to.name = path[2]} \X PathSums(Tail(path))}

\* The chain of predecessor links from v back to a vertex without an entry,
\* cut after fuel links.
RECURSIVE Chain(_, _)
Chain(v, fuel) ==
  IF ~MapHas(prevVertex, v) \/ fuel = 0
  THEN <<v>>
  ELSE <<v>> \o Chain(prevVertex[v].name, fuel - 1)

NoRepeat(seq) == \A a, b \in 1..Len(seq) : seq[a] = seq[b] => a = b

\* The entry the current loop iteration dequeued is stale.
Stale ==
  \/ vertexToCheck.name \in visited
  \/ bestDistSoFar > bestDistances[vertexToCheck.name].n

(***************************************************************************)
(* Properties.                                                             *)
(***************************************************************************)

\* C1: on non-negative weights, once the constructor has returned,
\* shortestPathTo(v) of every vertex v reachable from the source is the least
\* summed weight over the enumerated walks source -> v, whichever of the
\* least entries each dequeue took; on the demo topology the distances are
\* A=0, B=1, C=2, D=7, E=10.
C1_ShortestDistances ==
  (pc = "done" /\ NonNegative) =>
    LET walks == Walks
    IN  /\ \A v \in AllVertices(edges) :
             Reachable(walks, v) =>
               shortestPathTo(Vertex(v)) = Num(TrueDistance(walks, v))
        /\ IsRef =>
             /\ shortestPathTo(Vertex("A")) = Num(0)
             /\ shortestPathTo(Vertex("B")) = Num(1)
             /\ shortestPathTo(Vertex("C")) = Num(2)
             /\ shortestPathTo(Vertex("D")) = Num(7)
             /\ shortestPathTo(Vertex("E")) = Num(10)

\* A shortestPathTo query has answered 1 for a vertex that the source also
\* has a direct edge of weight 2 to.
C1_Witness ==
  /\ pc = "done"
  /\ NonNegative
  /\ ~IsRef
  /\ result.op = "shortestPathTo"
  /\ result.value = Num(1)
  /\ \E k \in 1..Len(edges) :
       /\ edges[k].from.name = startV.name
       /\ edges[k].to.name = result.v
       /\ edges[k].distance = 2

\* C2: on non-negative weights, once the constructor has returned, the path
\* printPathTo yields for a reachable vertex v starts at the source, ends at
\* v, steps along input edges only, and some choice of those edges sums to
\* shortestPathTo(v); on the demo topology the path to C is A, B, C.
C2_PathIsShortest ==
  (pc = "done" /\ NonNegative) =>
    LET walks == Walks
    IN  /\ \A v \in AllVertices(edges) :
             Reachable(walks, v) =>
               LET r == printPathTo(Vertex(v))
               IN  /\ r.kind \in {"source", "path"}
                   /\ r.path[1] = startV.name
                   /\ r.path[Len(r.path)] = v
                   /\ shortestPathTo(Vertex(v)).kind = "number"
                   /\ shortestPathTo(Vertex(v)).n \in PathSums(r.path)
                   /\ r.kind = "path" => r.total = shortestPathTo(Vertex(v))
        /\ IsRef => printPathTo(Vertex("C")).path = <<"A", "B", "C">>

\* A printPathTo query has returned a path of three vertices.
C2_Witness ==
  /\ pc = "done"
  /\ NonNegative
  /\ result.op = "printPathTo"
  /\ result.value.kind = "path"
  /\ Len(result.value.path) = 3
  /\ ~IsRef

\* C3: from the moment the maps are built, every vertex of the input edges
\* that no walk from the source reaches has distance Infinity and no
\* predecessor entry, so that shortestPathTo yields Infinity and printPathTo
\* undefined for it.
C3_UnreachableStaysInfinite ==
  Built =>
    LET walks == Walks
    IN  \A v \in AllVertices(edges) :
          ~Reachable(walks, v) =>
            /\ shortestPathTo(Vertex(v)) = Infinity
            /\ ~MapHas(prevVertex, v)
            /\ printPathTo(Vertex(v)) = Undefined

\* printPathTo has returned undefined for a vertex of the graph that has an
\* edge into an already reached vertex but is not reachable itself.
C3_Witness ==
  /\ pc = "done"
  /\ result.op = "printPathTo"
  /\ result.v \in AllVertices(edges)
  /\ ~Reachable(Walks, result.v)
  /\ result.value = Undefined
  /\ \E k \in 1..Len(edges) :
       /\ edges[k].from.name = result.v
       /\ edges[k].to.name \in DOMAIN prevVertex

\* C4: construction on an edge list with a negative weight ends in an
\* error and builds nothing.
C4_NegativeWeightFailsFast ==
  (HasNegative /\ pc # "new") => (pc = "error" /\ bestDistances = EmptyMap)

\* C5: on every graph whose constructor has returned, shortestPathTo of the
\* source is 0.
C5_SourceDistanceZero ==
  pc = "done" => shortestPathTo(startV) = Num(0)

\* C6: on an empty edge list, or on one that names the source in no
\* endpoint, construction can only end in the error of that case, with no
\* adjacency, distance, predecessor, queue or visited state built.
C6_InvalidInputFailsFirst ==
  /\ Len(edges) = 0 =>
       /\ pc \in {"new", "error"}
       /\ pc = "error" => error = "Edges should not be empty"
  /\ (Len(edges) > 0 /\ startV.name \notin AllVertices(edges)) =>
       /\ pc \in {"new", "error"}
       /\ pc = "error" => error = "Edges should include given start Vertex"
  /\ pc = "error" =>
       /\ error # NoError
       /\ neighbours = EmptyMap /\ bestDistances = EmptyMap
       /\ prevVertex = EmptyMap /\ q = EmptyBag /\ visited = {}
       /\ Len(edges) = 0 \/ startV.name \notin AllVertices(edges)

\* Construction has failed on a non-empty edge list without the source.
C6_Witness ==
  /\ pc = "error"
  /\ Len(edges) > 0
  /\ error = "Edges should include given start Vertex"

\* Construction has failed on the empty edge list.
C6_WitnessEmpty ==
  /\ pc = "error"
  /\ Len(edges) = 0
  /\ error = "Edges should not be empty"

\* C7: on non-negative weights, in every state during and after
\* construction, the source has no predecessor entry and the predecessor
\* links from any vertex with an entry reach the source without visiting a
\* vertex twice, the distance never increasing along a link back; the walk of
\* printPathTo ends for every vertex.
C7_PredecessorsAcyclic ==
  NonNegative =>
    /\ ~MapHas(prevVertex, startV.name)
    /\ \A v \in AllNames : printPathTo(Vertex(v)).kind # "diverges"
    /\ \A v \in DOMAIN prevVertex :
         LET chain == Chain(v, Cardinality(DOMAIN prevVertex) + 1)
         IN  /\ NoRepeat(chain)
             /\ chain[Len(chain)] = startV.name
             /\ \A a \in 1..(Len(chain) - 1) :
                  /\ bestDistances[chain[a]].kind = "number"
                  /\ bestDistances[chain[a + 1]].kind = "number"
                  /\ bestDistances[chain[a + 1]].n <= bestDistances[chain[a]].n

\* Mid-loop, a chain of two links exists whose first link has weight 0, and
\* an edge of weight 0 leads back into the chain.
C7_Witness ==
  /\ NonNegative
  /\ pc = "for"
  /\ \E v \in DOMAIN prevVertex :
       /\ MapHas(prevVertex, prevVertex[v].name)
       /\ bestDistances[v] = bestDistances[prevVertex[v].name]
       /\ \E k \in 1..Len(edges) :
            /\ edges[k].from.name = v
            /\ edges[k].to.name = prevVertex[v].name
            /\ edges[k].distance = 0

\* C8: on non-negative weights, a vertex that enters visited has its true
\* shortest distance at that moment, and no later step changes the distance
\* or the predecessor of a visited vertex.
C8_VisitedIsFinal ==
  [][NonNegative =>
       /\ \A u \in visited' \ visited :
            LET walks == Walks
            IN  /\ Reachable(walks, u)
                /\ bestDistances'[u] = Num(TrueDistance(walks, u))
       /\ \A u \in visited :
            /\ u \in visited'
            /\ bestDistances'[u] = bestDistances[u]
            /\ MapGet(prevVertex', u) = MapGet(prevVertex, u)]_vars

\* The loop is about to look at an edge into a visited vertex other than
\* the source, from a vertex dequeued at a distance below that vertex's.
C8_Witness ==
  /\ NonNegative
  /\ pc = "for"
  /\ idx <= Len(neighbours[vertexToCheck.name])
  /\ LET w == neighbours[vertexToCheck.name][idx].to.name
     IN  /\ w \in visited
         /\ w # startV.name
         /\ w # vertexToCheck.name

\* C9: on non-negative weights, an iteration whose dequeued entry (u, d) is
\* stale (u visited already, or d above the current distance of u) changes no
\* distance and no predecessor and enqueues nothing: the dequeue only takes
\* an entry out, and no later step of the iteration touches the maps or the
\* queue.
C9_StaleEntryIgnored ==
  [][/\ (NonNegative /\ pc = "while") =>
          /\ bestDistances' = bestDistances
          /\ prevVertex' = prevVertex
          /\ q' \sqsubseteq q
     /\ (NonNegative /\ pc = "for" /\ Stale) =>
          /\ bestDistances' = bestDistances
          /\ prevVertex' = prevVertex
          /\ q' = q]_vars

\* A stale entry has been dequeued and the loop is about to look at an edge
\* from its vertex into a vertex not yet visited.
C9_Witness ==
  /\ NonNegative
  /\ pc = "for"
  /\ Stale
  /\ idx <= Len(neighbours[vertexToCheck.name])
  /\ neighbours[vertexToCheck.name][idx].to.name \notin visited

\* C10: construction on an edge list that passes validation keeps stepping
\* until the queue is empty and the constructor has returned; from then on
\* the graph stays constructed and queries change no distance and no
\* predecessor.
C10_Terminates ==
  /\ (validateInput(startV, edges) = NoError) ~> (pc = "done" /\ IsEmptyQ(q))
  /\ [][pc = "done" =>
          /\ pc' = "done"
          /\ bestDistances' = bestDistances
          /\ prevVertex' = prevVertex]_vars

\* The constructor has returned with two vertices visited, and a query has
\* been answered on the constructed graph.
C10_Witness ==
  /\ pc = "done"
  /\ IsEmptyQ(q)
  /\ result.op = "printPathTo"
  /\ Cardinality(visited) = 2

====
